---- MODULE Spec2Model ----
(***************************************************************************)
(* A model of zerver/lib/queue.py: the blocking SimpleQueueClient, the     *)
(* event-driven TornadoQueueClient, queue_json_publish with its lock, and  *)
(* retry_event.  Each part of the program has its own specification over   *)
(* the same variables; a specification leaves the variables of the other   *)
(* parts at their initial values.                                          *)
(***************************************************************************)
EXTENDS Integers, Sequences, FiniteSets, TLC

VARIABLES
    connection,   \* self.connection: "none" (None), "connecting", "open", "closed" (is_open False)
    channel,      \* self.channel: "none" (None) or "set" (a channel object, live only while the connection is)
    queues,       \* self.queues: the declared-queue cache
    consumers,    \* self.consumers: queue name -> set of wrapped consumers
    on_open_cbs,  \* TornadoQueueClient._on_open_cbs
    broker,       \* what the broker holds for the client's current connection
    ioloop,       \* the number of armed call_later(on_timeout) timers
    calls,        \* observation: the ensure_queue callbacks invoked by the most recent operation
    atReconnect,  \* observation: the registry as it was when the connection was last re-established
    invoked,      \* observation: per deferred-capable publish action, whether it was deferred and how often it ran
    connects,     \* observation: the connections the event-driven client has created
    lastCall,     \* observation: the publish and _reconnect calls of the most recent operation, and what it raised
    transports,   \* observation: the connections the client has created that have not closed
    outages,      \* observation: the reconnects the broker has refused
    ctags,        \* observation: the consumer tags generated for basic_consume, oldest first
    USING_RABBITMQ, \* settings.USING_RABBITMQ
    rabbit,       \* the events held by the broker queue that retry_event republishes to
    direct,       \* the events handed to get_worker(queue).consume_wrapper
    failed,       \* the set of events handed to failure_processor
    lastRetry,    \* observation: the most recent retry_event or queue_json_publish call
    stored,       \* the messages the broker holds in the queue that drain_queue reads
    unacked,      \* the messages fetched from that queue and not acknowledged
    lastDrain,    \* observation: the most recent drain_queue call
    delivery_tag, \* the delivery tag of the most recent delivery on the channel
    lastDispatch, \* observation: the most recent call of a wrapped consumer
    queue_lock,   \* the RLock: its owner (0: none) and its recursion count
    pc,           \* per thread: where it is in queue_json_publish, the queue it publishes to, what its call raises
    RUNNING_INSIDE_TORNADO, \* settings.RUNNING_INSIDE_TORNADO
    queue_client, \* the module's queue_client: 0 (None) or the number of an instance
    instances,    \* the clients constructed, by class, oldest first
    caller,       \* per thread: where it is in get_queue_client, and what its last call returned (-1: no call yet)
    returned      \* observation: what the get_queue_client calls have returned

clientVars == <<connection, channel, queues, consumers, on_open_cbs, broker,
                ioloop, calls, atReconnect, invoked, connects, lastCall,
                transports, outages, ctags>>
retryVars == <<USING_RABBITMQ, rabbit, direct, failed, lastRetry>>
drainVars == <<stored, unacked, lastDrain>>
dispatchVars == <<delivery_tag, lastDispatch>>
lockVars == <<queue_lock, pc>>
factoryVars == <<RUNNING_INSIDE_TORNADO, queue_client, instances, caller, returned>>

vars == <<clientVars, retryVars, drainVars, dispatchVars, lockVars, factoryVars>>

----------------------------------------------------------------------------
(* Bounds of the model *)

\* wrapped consumers that register_consumer creates in one run
MaxConsumers == 2

\* wrapped consumers that the event-driven register_consumer creates in one run
MaxLoopConsumers == 1

\* publish actions handed to the event-driven ensure_queue in one run
MaxActions == 2

\* connections the event-driven client creates in one run
MaxConnects == 2

\* connections of one client that are not closed at one time
MaxTransports == 2

\* reconnects that the broker refuses in one run
MaxOutages == 1

Queues == {"q1", "q2"}

ConsumerIds == 1..MaxConsumers

\* the step of a publish attempt at which the broker link breaks, if that step runs
Faults == {"none", "connect", "declare", "publish", "other"}

\* threads that call queue_json_publish
MaxThreads == 2

\* deliveries made to wrapped consumers in one run
MaxDeliveries == 4

\* messages in the drained queue at one time
MaxLen == 3

\* events that wait for a processing attempt at one time
MaxEvents == 2

\* the largest failed_tries an event arrives with
MaxTries == 5

Threads == 1..MaxThreads

----------------------------------------------------------------------------
(* The parts a specification does not use stay as they are here *)

NoRetry ==
    /\ USING_RABBITMQ = TRUE
    /\ rabbit = <<>>
    /\ direct = <<>>
    /\ failed = {}
    /\ lastRetry = [op |-> "init"]

NoDrain ==
    /\ stored = <<>>
    /\ unacked = <<>>
    /\ lastDrain = [op |-> "init"]

NoDispatch ==
    /\ delivery_tag = 0
    /\ lastDispatch = [op |-> "init"]

NoThreads ==
    /\ queue_lock = [owner |-> 0, count |-> 0]
    /\ pc = [t \in Threads |-> [at |-> "idle", queue |-> "q1", exc |-> "none"]]

NoFactory ==
    /\ RUNNING_INSIDE_TORNADO = FALSE
    /\ queue_client = 0
    /\ instances = <<>>
    /\ caller = [t \in Threads |-> [at |-> "idle", got |-> -1]]
    /\ returned = {}

----------------------------------------------------------------------------
(* The broker's view of one connection *)

\* a fresh connection: nothing declared, nothing subscribed on it
FreshLink ==
    [confirmed |-> {},
     declares  |-> [q \in Queues |-> 0],
     subs      |-> [c \in ConsumerIds |-> 0],
     opening   |-> FALSE,
     pending   |-> <<>>]

\* the client and broker state that an operation starts from; it has
\* invoked no callback yet
World ==
    [connection |-> connection, channel |-> channel, queues |-> queues,
     consumers |-> consumers, on_open_cbs |-> on_open_cbs, broker |-> broker,
     ioloop |-> ioloop, calls |-> {}, atReconnect |-> atReconnect,
     invoked |-> invoked, connects |-> connects,
     transports |-> transports, outages |-> outages, ctags |-> ctags,
     log |-> [publishes |-> <<>>, reconnects |-> <<>>]]

Apply(w) ==
    /\ connection' = w.connection
    /\ channel' = w.channel
    /\ queues' = w.queues
    /\ consumers' = w.consumers
    /\ on_open_cbs' = w.on_open_cbs
    /\ broker' = w.broker
    /\ ioloop' = w.ioloop
    /\ calls' = w.calls
    /\ atReconnect' = w.atReconnect
    /\ invoked' = w.invoked
    /\ connects' = w.connects
    /\ transports' = w.transports
    /\ outages' = w.outages
    /\ ctags' = w.ctags

\* what an operation did, as the observation kept of it
Course(op, r) ==
    [op |-> op, publishes |-> r.w.log.publishes,
     reconnects |-> r.w.log.reconnects, raised |-> r.exc]

Registered(w) == UNION {w.consumers[q] : q \in Queues}

\* a method's result: the world it leaves and the exception it raises
Ret(w) == [w |-> w, exc |-> "none"]
Raise(w, e) == [w |-> w, exc |-> e]

\* the connection drops while the client talks to the broker
LinkBroken(w) == [w EXCEPT !.connection = "closed", !.transports = @ - 1]

----------------------------------------------------------------------------
(* SimpleQueueClient *)

\* __init__: empty cache and registry, then a successful _connect()
SimpleInit ==
    /\ connection = "open"
    /\ channel = "set"
    /\ queues = {}
    /\ consumers = [q \in Queues |-> {}]
    /\ on_open_cbs = <<>>
    /\ broker = FreshLink
    /\ ioloop = 0
    /\ calls = {}
    /\ atReconnect = {}
    /\ invoked = <<>>
    /\ connects = 1
    /\ transports = 1
    /\ outages = 0
    /\ ctags = <<>>
    /\ NoFactory
    /\ lastCall = [op |-> "init", publishes |-> <<>>, reconnects |-> <<>>,
                   raised |-> "none"]
    /\ NoRetry /\ NoDrain /\ NoDispatch /\ NoThreads

\* _connect: a new BlockingConnection and its channel, or AMQPConnectionError
Simple_connect(w, ok) ==
    IF ok
    THEN Ret([w EXCEPT !.connection = "open", !.channel = "set",
                       !.broker = FreshLink, !.transports = @ + 1])
    ELSE Raise(w, "AMQPConnectionError")

\* a connection re-established after the first one: remember the registry
Reestablished(r) ==
    IF r.exc = "none"
    THEN [r EXCEPT !.w.atReconnect = Registered(r.w)]
    ELSE r

\* _reconnect: drop connection, channel and cache, then _connect()
Simple_reconnect(w, ok) ==
    LET r == Reestablished(
                 Simple_connect([w EXCEPT !.connection = "none",
                                          !.channel = "none",
                                          !.queues = {}], ok))
    IN  [r EXCEPT !.w.log.reconnects = Append(@, r.exc)]

\* channel.queue_declare(queue, durable=True), synchronous
Simple_queue_declare(w, q, ok) ==
    LET asked == [w EXCEPT !.broker.declares[q] = @ + 1] IN
    IF ok
    THEN Ret([asked EXCEPT !.broker.confirmed = @ \cup {q}])
    ELSE Raise(LinkBroken(asked), "AMQPConnectionError")

\* the callback is about to be invoked: observe the connection and the declare
Invoke(w, q) ==
    [w EXCEPT !.calls = @ \cup {[queue |-> q,
                                 open |-> w.connection = "open",
                                 declared |-> q \in w.broker.confirmed]}]

\* ensure_queue up to the call of the callback; exc = "none" means the
\* callback is invoked in the world returned
Simple_ensure_queue(w, q, fault) ==
    LET c == IF w.connection = "none" \/ w.connection # "open"
             THEN Reestablished(Simple_connect(w, fault # "connect"))
             ELSE Ret(w)
        d == IF c.exc # "none" THEN c
             ELSE IF q \notin c.w.queues
                  THEN LET r == Simple_queue_declare(c.w, q, fault # "declare")
                       IN  IF r.exc = "none"
                           THEN Ret([r.w EXCEPT !.queues = @ \cup {q}])
                           ELSE r
                  ELSE c
    IN  IF d.exc # "none" THEN d ELSE Ret(Invoke(d.w, q))

\* do_publish: channel.basic_publish
do_publish(w, q, fault) ==
    CASE fault = "publish" -> Raise(LinkBroken(w), "AMQPConnectionError")
      [] fault = "other"   -> Raise(w, "Exception")
      [] OTHER             -> Ret(w)

\* publish: ensure_queue(queue_name, do_publish)
Simple_publish(w, q, fault) ==
    LET e == Simple_ensure_queue(w, q, fault)
        r == IF e.exc # "none" THEN e ELSE do_publish(e.w, q, fault)
    IN  [r EXCEPT !.w.log.publishes = Append(@, r.exc)]

\* json_publish as it would be if a failed _reconnect() did not end the call
Simple_json_publish_RetryAnyway(w, q, f1, reconnectOk, f2) ==
    LET a1 == Simple_publish(w, q, f1) IN
    IF a1.exc # "AMQPConnectionError"
    THEN a1
    ELSE Simple_publish(Simple_reconnect(a1.w, reconnectOk).w, q, f2)

\* json_publish: one attempt; on AMQPConnectionError _reconnect() and one more
Simple_json_publish(w, q, f1, reconnectOk, f2) ==
    LET a1 == Simple_publish(w, q, f1) IN
    IF a1.exc # "AMQPConnectionError"
    THEN a1
    ELSE LET rc == Simple_reconnect(a1.w, reconnectOk) IN
         IF rc.exc # "none"
         THEN rc
         ELSE Simple_publish(rc.w, q, f2)

\* channel.basic_consume(wrapped_consumer, queue, consumer_tag)
basic_consume(w, c) == [w EXCEPT !.broker.subs[c] = @ + 1]

\* register_consumer: store the wrapped consumer, then subscribe under ensure_queue
Simple_register_consumer(w, q, c, fault) ==
    LET kept == [w EXCEPT !.consumers[q] = @ \cup {c}]
        e == Simple_ensure_queue(kept, q, fault)
    IN  IF e.exc # "none" THEN e ELSE Ret(basic_consume(e.w, c))

\* close: connection.close() when there is a connection
Simple_close(w) ==
    IF w.connection = "open" THEN LinkBroken(w)
    ELSE IF w.connection # "none" THEN [w EXCEPT !.connection = "closed"]
    ELSE w

(* The actions of the blocking client *)

Publish(q) ==
    \E fault \in Faults :
        \E r \in {Simple_publish(World, q, fault)} :
            /\ Apply(r.w)
            /\ lastCall' = Course("publish", r)
            /\ UNCHANGED <<retryVars, drainVars, dispatchVars, lockVars, factoryVars>>

JsonPublish(q) ==
    \E f1 \in Faults :
        \E a1 \in {Simple_publish(World, q, f1)} :
            \E reconnectOk \in IF a1.exc = "AMQPConnectionError" THEN BOOLEAN ELSE {TRUE} :
                \E f2 \in IF a1.exc = "AMQPConnectionError" /\ reconnectOk
                          THEN Faults ELSE {"none"} :
                    \E r \in {Simple_json_publish(World, q, f1, reconnectOk, f2)} :
                        /\ Apply(r.w)
                        /\ lastCall' = Course("json_publish", r)
                        /\ UNCHANGED <<retryVars, drainVars, dispatchVars, lockVars, factoryVars>>

RegisterConsumer(q) ==
    \E fault \in Faults \ {"publish", "other"} :
        \E c \in {Cardinality(Registered(World)) + 1} :
            /\ c <= MaxConsumers
            /\ \E r \in {Simple_register_consumer(World, q, c, fault)} :
                   /\ Apply(r.w)
                   /\ lastCall' = Course("register_consumer", r)
                   /\ UNCHANGED <<retryVars, drainVars, dispatchVars, lockVars, factoryVars>>

ForcedReconnect ==
    \E ok \in BOOLEAN :
        \E r \in {Simple_reconnect(World, ok)} :
            /\ r.w.transports <= MaxTransports
            /\ Apply(r.w)
            /\ lastCall' = Course("_reconnect", r)
            /\ UNCHANGED <<retryVars, drainVars, dispatchVars, lockVars, factoryVars>>

Close ==
    /\ Apply(Simple_close(World))
    /\ lastCall' = Course("close", Ret(World))
    /\ UNCHANGED <<retryVars, drainVars, dispatchVars, lockVars, factoryVars>>

\* the broker or the network ends the connection between two calls
ConnectionLost ==
    /\ connection = "open"
    /\ Apply(LinkBroken(World))
    /\ lastCall' = Course("lost", Ret(World))
    /\ UNCHANGED <<retryVars, drainVars, dispatchVars, lockVars, factoryVars>>

SimpleNext ==
    \/ \E q \in Queues : Publish(q)
    \/ \E q \in Queues : JsonPublish(q)
    \/ \E q \in Queues : RegisterConsumer(q)
    \/ ForcedReconnect
    \/ Close
    \/ ConnectionLost

SpecSimple == SimpleInit /\ [][SimpleNext]_vars

----------------------------------------------------------------------------
(* TornadoQueueClient *)

\* __init__: SimpleQueueClient.__init__ with the asynchronous _connect(),
\* then an empty _on_open_cbs
TornadoInit ==
    /\ connection = "connecting"
    /\ channel = "none"
    /\ queues = {}
    /\ consumers = [q \in Queues |-> {}]
    /\ on_open_cbs = <<>>
    /\ broker = FreshLink
    /\ ioloop = 0
    /\ calls = {}
    /\ atReconnect = {}
    /\ invoked = <<>>
    /\ connects = 1
    /\ transports = 1
    /\ outages = 0
    /\ ctags = <<>>
    /\ NoFactory
    /\ lastCall = [op |-> "init", publishes |-> <<>>, reconnects |-> <<>>,
                   raised |-> "none"]
    /\ NoRetry /\ NoDrain /\ NoDispatch /\ NoThreads

\* ready: self.channel is not None
ready(w) == w.channel # "none"

\* _connect (no on_open_cb is ever passed): a new connection that opens
\* later, or AMQPConnectionError when the socket cannot be connected
Tornado_connect(w, ok) ==
    IF ok
    THEN Ret([w EXCEPT !.connection = "connecting", !.broker = FreshLink,
                       !.connects = @ + 1, !.transports = @ + 1])
    ELSE Raise(w, "AMQPConnectionError")

\* _reconnect: drop connection, channel and cache, then _connect()
Tornado_reconnect(w, ok) ==
    LET r == Tornado_connect([w EXCEPT !.connection = "none",
                                       !.channel = "none",
                                       !.queues = {}], ok)
    IN  [r EXCEPT !.w.log.reconnects = Append(@, r.exc),
                  !.w.atReconnect = IF r.exc = "none" THEN Registered(r.w) ELSE @]

\* the callback handed to ensure_queue runs: do_publish for a publish,
\* channel.basic_consume for a subscription; a channel whose connection has
\* closed raises ChannelClosed
Tornado_callback(w, cb) ==
    LET seen == Invoke(w, cb.queue)
        run == IF cb.kind = "publish"
               THEN [seen EXCEPT !.invoked[cb.id].n = @ + 1]
               ELSE seen
    IN  IF w.connection # "open" THEN Raise(run, "ChannelClosed")
        ELSE IF cb.kind = "consume" THEN Ret(basic_consume(run, cb.id))
        ELSE Ret(run)

\* a publish action is put on _on_open_cbs
Deferred(w, cb) ==
    IF cb.kind = "publish" THEN [w EXCEPT !.invoked[cb.id].deferred = TRUE] ELSE w

\* ensure_queue
Tornado_ensure_queue(w, q, cb) ==
    IF q \notin w.queues
    THEN IF ~ready(w)
         THEN Ret([Deferred(w, cb) EXCEPT !.on_open_cbs = Append(@, cb)])
         ELSE IF w.connection # "open"
              THEN Raise(w, "ChannelClosed")
              ELSE Ret([w EXCEPT !.broker.declares[q] = @ + 1,
                                 !.broker.pending = Append(@, cb)])
    ELSE Tornado_callback(w, cb)

\* finish: the completion callback of queue_declare
Tornado_finish(w, cb) ==
    Tornado_callback([w EXCEPT !.queues = @ \cup {cb.queue}], cb)

\* a sequence of ensure_queue calls, ended by the first that raises
RECURSIVE EnsureAll(_, _)
EnsureAll(w, cbs) ==
    IF cbs = <<>> THEN Ret(w)
    ELSE LET r == Tornado_ensure_queue(w, Head(cbs).queue, Head(cbs)) IN
         IF r.exc # "none" THEN r ELSE EnsureAll(r.w, Tail(cbs))

\* the queue a wrapped consumer is registered for
QueueOf(w, c) == CHOOSE q \in Queues : c \in w.consumers[q]

\* _reconnect_consumer_callbacks, the registry iterated in the order given
Tornado_reconnect_consumer_callbacks(w, order) ==
    EnsureAll(w, [i \in 1..Len(order) |->
                     [kind |-> "consume", id |-> order[i],
                      queue |-> QueueOf(w, order[i])]])

\* _on_open: the connection is open, ask for a channel
Tornado_on_open(w) ==
    [w EXCEPT !.connection = "open", !.broker.opening = TRUE]

\* _on_channel_open: keep the channel, run every _on_open_cbs entry, replay
\* the registry
Tornado_on_channel_open(w, order) ==
    LET r == EnsureAll([w EXCEPT !.channel = "set", !.broker.opening = FALSE],
                       w.on_open_cbs)
    IN  IF r.exc # "none" THEN r
        ELSE Tornado_reconnect_consumer_callbacks(r.w, order)

\* _on_connection_closed: arm on_timeout
Tornado_on_connection_closed(w) ==
    [w EXCEPT !.ioloop = @ + 1]

\* on_timeout as it would be without the call_later of line 224
Tornado_on_timeout_NotRearmed(w, ok) ==
    Tornado_reconnect([w EXCEPT !.ioloop = @ - 1], ok)

\* on_timeout: _reconnect(); on AMQPConnectionError arm on_timeout again
Tornado_on_timeout(w, ok) ==
    LET fired == [w EXCEPT !.ioloop = @ - 1]
        r == Tornado_reconnect(fired, ok)
    IN  IF r.exc = "AMQPConnectionError"
        THEN Ret([r.w EXCEPT !.ioloop = @ + 1])
        ELSE r

\* publish: ensure_queue(queue_name, do_publish)
Tornado_publish(w, q, id) ==
    LET cb == [kind |-> "publish", id |-> id, queue |-> q]
        r == Tornado_ensure_queue(
                 [w EXCEPT !.invoked = Append(@, [deferred |-> FALSE, n |-> 0,
                                                  exc |-> "none"])],
                 q, cb)
    IN  [r EXCEPT !.w.log.publishes = Append(@, r.exc),
                  !.w.invoked[id].exc = r.exc]

\* json_publish (inherited): the first publish, and after AMQPConnectionError
\* _reconnect() and a second publish
Tornado_json_publish(w, q, id, reconnectOk) ==
    LET a1 == Tornado_publish(w, q, id) IN
    IF a1.exc # "AMQPConnectionError"
    THEN a1
    ELSE LET rc == Tornado_reconnect(a1.w, reconnectOk) IN
         IF rc.exc # "none" THEN rc ELSE Tornado_publish(rc.w, q, id)

\* register_consumer: store the wrapped consumer; subscribe under
\* ensure_queue when the channel is there
Tornado_register_consumer(w, q, c) ==
    LET kept == [w EXCEPT !.consumers[q] = @ \cup {c}] IN
    IF ~ready(w)
    THEN Ret(kept)
    ELSE Tornado_ensure_queue(kept, q,
                              [kind |-> "consume", id |-> c, queue |-> q])

\* the orders in which a set can be iterated
Orders(S) ==
    {o \in [1..Cardinality(S) -> S] : \A i, j \in DOMAIN o : i # j => o[i] # o[j]}

(* The actions of the event-driven client *)

TJsonPublish(q) ==
    /\ Len(invoked) < MaxActions
    /\ \E r \in {Tornado_json_publish(World, q, Len(invoked) + 1, TRUE)} :
           /\ Apply(r.w)
           /\ UNCHANGED lastCall
           /\ UNCHANGED <<retryVars, drainVars, dispatchVars, lockVars, factoryVars>>

TRegisterConsumer(q) ==
    \E c \in {Cardinality(Registered(World)) + 1} :
        /\ c <= MaxLoopConsumers
        /\ \E r \in {Tornado_register_consumer(World, q, c)} :
               /\ Apply(r.w)
               /\ UNCHANGED lastCall
               /\ UNCHANGED <<retryVars, drainVars, dispatchVars, lockVars, factoryVars>>

\* the connection's handshake completes
OnOpen ==
    /\ connection = "connecting"
    /\ Apply(Tornado_on_open(World))
    /\ UNCHANGED lastCall
    /\ UNCHANGED <<retryVars, drainVars, dispatchVars, lockVars, factoryVars>>

\* the broker answers the channel request
OnChannelOpen ==
    /\ connection = "open"
    /\ broker.opening
    /\ \E order \in Orders(Registered(World)) :
           \E r \in {Tornado_on_channel_open(World, order)} :
               /\ Apply(r.w)
               /\ UNCHANGED lastCall
               /\ UNCHANGED <<retryVars, drainVars, dispatchVars, lockVars, factoryVars>>

\* the broker confirms the oldest declare in flight
DeclareOk ==
    /\ connection = "open"
    /\ broker.pending # <<>>
    /\ \E r \in {Tornado_finish(
                    [World EXCEPT !.broker.pending = Tail(@),
                                  !.broker.confirmed = @ \cup {Head(broker.pending).queue}],
                    Head(broker.pending))} :
           /\ Apply(r.w)
           /\ UNCHANGED lastCall
           /\ UNCHANGED <<retryVars, drainVars, dispatchVars, lockVars, factoryVars>>

\* the connection closes, while connecting or open: what was in flight on it
\* is gone, and pika calls _on_connection_closed
OnConnectionClosed ==
    /\ connection \in {"connecting", "open"}
    /\ Apply(Tornado_on_connection_closed(
                 [LinkBroken(World) EXCEPT
                               !.broker.opening = FALSE,
                               !.broker.pending = <<>>]))
    /\ UNCHANGED lastCall
    /\ UNCHANGED <<retryVars, drainVars, dispatchVars, lockVars, factoryVars>>

\* an armed timer fires
OnTimeout ==
    /\ ioloop > 0
    /\ \E ok \in IF connects < MaxConnects THEN BOOLEAN ELSE {FALSE} :
           \E r \in {Tornado_on_timeout(World, ok)} :
               /\ Apply(r.w)
               /\ UNCHANGED lastCall
               /\ UNCHANGED <<retryVars, drainVars, dispatchVars, lockVars, factoryVars>>

TornadoNext ==
    \/ \E q \in Queues : TJsonPublish(q)
    \/ \E q \in Queues : TRegisterConsumer(q)
    \/ OnOpen
    \/ OnChannelOpen
    \/ DeclareOk
    \/ OnConnectionClosed
    \/ OnTimeout

SpecTornado == TornadoInit /\ [][TornadoNext]_vars

----------------------------------------------------------------------------
(* The event-driven client on a loop that runs its callbacks, with a broker *)
(* that closes connections and refuses reconnects only so many times        *)

\* the connection closes, while the broker still does that
BrokerCloses ==
    /\ connects < MaxConnects
    /\ OnConnectionClosed

\* an armed timer fires; the broker refuses the reconnect only so many times
TimerFires ==
    /\ ioloop > 0
    /\ \E ok \in IF outages < MaxOutages THEN BOOLEAN ELSE {TRUE} :
           \E r \in {Tornado_on_timeout(World, ok)} :
               /\ Apply([r.w EXCEPT !.outages = IF ok THEN @ ELSE @ + 1])
               /\ UNCHANGED lastCall
               /\ UNCHANGED <<retryVars, drainVars, dispatchVars, lockVars, factoryVars>>

\* a process that publishes and registers no consumer
LoopNext ==
    \/ \E q \in Queues : TJsonPublish(q)
    \/ OnOpen
    \/ OnChannelOpen
    \/ DeclareOk
    \/ BrokerCloses
    \/ TimerFires

\* the loop runs every callback that is due, and the broker answers
LoopFairness ==
    /\ WF_vars(TimerFires)
    /\ WF_vars(OnOpen)
    /\ WF_vars(OnChannelOpen)
    /\ WF_vars(DeclareOk)

SpecTornadoLoop == TornadoInit /\ [][LoopNext]_vars /\ LoopFairness

----------------------------------------------------------------------------
(* Claims about the event-driven client *)

\* C2 (as claimed): within one connection lifetime the ensure_queue calls for
\* a queue name issue at most one queue_declare, also when calls are made
\* before an earlier declare of the name is confirmed.
C2_OneDeclarePerLifetime ==
    \A q \in Queues : broker.declares[q] <= 1

\* C3 (as claimed): whenever the connection is not open, the declared-queue
\* cache is empty.
C3_CacheEmptyUnlessOpen ==
    connection # "open" => queues = {}

\* C10 (as claimed): an action that ensure_queue deferred because the channel
\* was not yet open is invoked at most once, over all channel opens and
\* reconnects.
C10_DeferredRunsAtMostOnce ==
    \A i \in DOMAIN invoked : invoked[i].deferred => invoked[i].n <= 1

Disconnected == connection \in {"closed", "none"}

\* C11: whenever the connection is closed a reconnect attempt is armed, also
\* after an attempt that failed, and when the broker accepts connections again
\* the client reaches the open state.
C11_RearmedUntilOpen ==
    /\ [](Disconnected => ioloop > 0)
    /\ [](Disconnected => <>(connection = "open"))

\* C11 witness: the connection is open again after it closed and the broker
\* refused a reconnect
C11_OpenAfterRefusal ==
    /\ connection = "open"
    /\ connects > 1
    /\ outages > 0

\* ensure_queue took the i-th publish action and returned
Accepted(i) ==
    IF i \in DOMAIN invoked THEN invoked[i].exc = "none" ELSE FALSE

\* the i-th publish action has been invoked
Ran(i) ==
    IF i \in DOMAIN invoked THEN invoked[i].n > 0 ELSE FALSE

\* C16 (as claimed): every action that ensure_queue accepted is invoked in
\* the end, when the loop runs and the broker accepts connections and confirms
\* declares.
C16_AcceptedActionRuns ==
    \A i \in 1..MaxActions : [](Accepted(i) => <>Ran(i))

----------------------------------------------------------------------------
(* Claims about the blocking client *)

\* C1 (as claimed): whenever ensure_queue invokes its action, the connection
\* is open and a declare of the queue has been confirmed on the current
\* connection.
C1_ActionSeesDeclaredQueue ==
    \A c \in calls : c.open /\ c.declared

\* C4 (as claimed): once the connection has been re-established and is open,
\* every consumer that was in the registry at that moment has exactly one
\* basic_consume on the new channel.
C4_ReplayedExactlyOnce ==
    connection = "open" => \A c \in atReconnect : broker.subs[c] = 1

JsonPublishDone == lastCall.op = "json_publish"
FirstFailed ==
    JsonPublishDone /\ lastCall.publishes[1] = "AMQPConnectionError"

\* C5 (as claimed): a json_publish whose first publish raises a connection
\* error makes exactly one _reconnect() and exactly one further publish, whose
\* error, if any, propagates; a first publish that succeeds is the only one.
C5_OneReconnectOneRetry ==
    /\ FirstFailed =>
          /\ Len(lastCall.reconnects) = 1
          /\ Len(lastCall.publishes) = 2
          /\ lastCall.raised = lastCall.publishes[2]
    /\ (JsonPublishDone /\ lastCall.publishes[1] = "none") =>
          /\ lastCall.reconnects = <<>>
          /\ Len(lastCall.publishes) = 1

\* C5 (amended): a json_publish whose first publish raises a connection error
\* makes exactly one _reconnect(); if that returns, exactly one further
\* publish is made and its error, if any, propagates; if the _reconnect()
\* itself raises, that error propagates and no further publish is made; a
\* first publish that succeeds is the only one and nothing is raised.
C5_OneReconnectThenOneRetry ==
    /\ FirstFailed =>
          /\ Len(lastCall.reconnects) = 1
          /\ lastCall.reconnects[1] = "none" =>
                /\ Len(lastCall.publishes) = 2
                /\ lastCall.raised = lastCall.publishes[2]
          /\ lastCall.reconnects[1] # "none" =>
                /\ Len(lastCall.publishes) = 1
                /\ lastCall.raised = lastCall.reconnects[1]
    /\ (JsonPublishDone /\ lastCall.publishes[1] = "none") =>
          /\ lastCall.reconnects = <<>>
          /\ Len(lastCall.publishes) = 1
          /\ lastCall.raised = "none"
    /\ JsonPublishDone => Len(lastCall.publishes) <= 2

\* C5 witness: a json_publish that failed, reconnected and failed again
C5_RetriedAndFailed ==
    /\ FirstFailed
    /\ lastCall.reconnects = <<"none">>
    /\ Len(lastCall.publishes) = 2
    /\ lastCall.raised = "AMQPConnectionError"

\* C18 (as claimed): the client has at most one connection that is not
\* closed; a connection is created only when the one before it has closed.
C18_OneTransport == transports <= 1

----------------------------------------------------------------------------
(* Consumer tags *)

\* the width of random.getrandbits(16)
CtagBits == 16

\* random.getrandbits(k): some of its 2^k outcomes, the least and the greatest
\* among them
getrandbits(k) == {0, 1, 2^k - 1}

\* _generate_ctag: "%s_%s" % (queue_name, str(random.getrandbits(16)))
generate_ctag(q, bits) == q \o "_" \o ToString(bits)

\* register_consumer with the tag that its basic_consume is given
Subscribe(q) ==
    \E fault \in {"none", "connect", "declare"}, bits \in getrandbits(CtagBits) :
        \E c \in {Cardinality(Registered(World)) + 1} :
            /\ c <= MaxConsumers
            /\ \E r \in {Simple_register_consumer(World, q, c, fault)} :
                   /\ Apply(IF r.exc = "none"
                            THEN [r.w EXCEPT !.ctags =
                                     Append(@, [queue |-> q,
                                                tag |-> generate_ctag(q, bits)])]
                            ELSE r.w)
                   /\ lastCall' = Course("register_consumer", r)
                   /\ UNCHANGED <<retryVars, drainVars, dispatchVars, lockVars, factoryVars>>

CtagNext ==
    \/ \E q \in Queues : Subscribe(q)
    \/ ConnectionLost
    \/ Close

SpecCtag == SimpleInit /\ [][CtagNext]_vars

\* C14 (as claimed): every consumer tag generated for a subscribe differs from
\* every tag generated earlier for the same queue.
C14_TagsDistinct ==
    \A i, j \in DOMAIN ctags :
        (i < j /\ ctags[i].queue = ctags[j].queue) => ctags[i].tag # ctags[j].tag

----------------------------------------------------------------------------
(* queue_json_publish and retry_event *)

MAX_REQUEST_RETRIES == 3

\* an event is a dict: a payload, and failed_tries once it has been retried
Events ==
    {[data |-> "job"]} \cup
    {[data |-> "job", failed_tries |-> n] : n \in 0..MaxTries}

\* the queues and the calls made, as retry_event and queue_json_publish see them
RetryWorld ==
    [rabbit |-> rabbit, direct |-> direct, failed |-> failed,
     published |-> <<>>, failures |-> <<>>, processed |-> <<>>,
     consumed |-> <<>>, brokered |-> <<>>, processor |-> "none"]

\* queue_json_publish as it would be if the processor were tried before the broker
queue_json_publish_ProcessorFirst(r, event, processor, publishOk) ==
    LET asked == [r EXCEPT !.published = Append(@, event),
                           !.processor = processor] IN
    IF processor # "none"
    THEN Ret([asked EXCEPT !.processed = Append(@, event)])
    ELSE IF USING_RABBITMQ
    THEN Ret([asked EXCEPT !.brokered = Append(@, event),
                           !.rabbit = Append(@, event)])
    ELSE Ret([asked EXCEPT !.consumed = Append(@, event),
                           !.direct = Append(@, event)])

\* queue_json_publish, the lock held throughout: the broker client's
\* json_publish, else the processor, else the worker's consume_wrapper
queue_json_publish(r, event, processor, publishOk) ==
    LET asked == [r EXCEPT !.published = Append(@, event),
                           !.processor = processor]
        sent == [asked EXCEPT !.brokered = Append(@, event)]
    IN
    IF USING_RABBITMQ
    THEN IF publishOk
         THEN Ret([sent EXCEPT !.rabbit = Append(@, event)])
         ELSE Raise(sent, "AMQPConnectionError")
    ELSE IF processor # "none"
    THEN Ret([asked EXCEPT !.processed = Append(@, event)])
    ELSE Ret([asked EXCEPT !.consumed = Append(@, event),
                           !.direct = Append(@, event)])

\* failure_processor(event)
failure_processor(r, event) ==
    Ret([r EXCEPT !.failures = Append(@, event), !.failed = @ \cup {event}])

\* event['failed_tries'] after lines 296-298
Incremented(event) ==
    LET e == IF "failed_tries" \notin DOMAIN event
             THEN [k \in DOMAIN event \cup {"failed_tries"} |->
                      IF k = "failed_tries" THEN 0 ELSE event[k]]
             ELSE event
    IN  [e EXCEPT !["failed_tries"] = @ + 1]

\* retry_event as it would be with the republish inside try/except
retry_event_Ignoring(r, event, publishOk) ==
    IF Incremented(event)["failed_tries"] > MAX_REQUEST_RETRIES
    THEN failure_processor(r, Incremented(event))
    ELSE Ret(queue_json_publish(r, Incremented(event), "noop", publishOk).w)

\* retry_event as it would be with >= in place of >
retry_event_OffByOne(r, event, publishOk) ==
    IF Incremented(event)["failed_tries"] >= MAX_REQUEST_RETRIES
    THEN failure_processor(r, Incremented(event))
    ELSE queue_json_publish(r, Incremented(event), "noop", publishOk)

\* retry_event
retry_event(r, event, publishOk) ==
    IF Incremented(event)["failed_tries"] > MAX_REQUEST_RETRIES
    THEN failure_processor(r, Incremented(event))
    ELSE queue_json_publish(r, Incremented(event), "noop", publishOk)

ApplyRetry(op, before, res) ==
    /\ rabbit' = res.w.rabbit
    /\ direct' = res.w.direct
    /\ failed' = res.w.failed
    /\ lastRetry' = [op |-> op, before |-> before,
                     published |-> res.w.published,
                     failures |-> res.w.failures,
                     processed |-> res.w.processed,
                     consumed |-> res.w.consumed,
                     brokered |-> res.w.brokered,
                     processor |-> res.w.processor, raised |-> res.exc]
    /\ UNCHANGED <<USING_RABBITMQ, clientVars, drainVars, dispatchVars, lockVars, factoryVars>>

Waiting == IF USING_RABBITMQ THEN rabbit ELSE direct

RetryInit ==
    /\ USING_RABBITMQ \in BOOLEAN
    /\ rabbit = <<>>
    /\ direct = <<>>
    /\ failed = {}
    /\ lastRetry = [op |-> "init"]
    /\ connection = "open"
    /\ channel = "set"
    /\ queues = {}
    /\ consumers = [q \in Queues |-> {}]
    /\ on_open_cbs = <<>>
    /\ broker = FreshLink
    /\ ioloop = 0
    /\ calls = {}
    /\ atReconnect = {}
    /\ invoked = <<>>
    /\ connects = 1
    /\ transports = 1
    /\ outages = 0
    /\ ctags = <<>>
    /\ NoFactory
    /\ lastCall = [op |-> "init", publishes |-> <<>>, reconnects |-> <<>>,
                   raised |-> "none"]
    /\ NoDrain /\ NoDispatch /\ NoThreads

\* a producer calls queue_json_publish
NewEvent ==
    /\ Len(Waiting) < MaxEvents
    /\ \E event \in Events, processor \in {"none", "handler"}, publishOk \in BOOLEAN :
           \E res \in {queue_json_publish(RetryWorld, event, processor, publishOk)} :
               ApplyRetry("queue_json_publish", event, res)

\* a worker takes the next event, fails on it and calls retry_event
WorkerFails ==
    /\ Waiting # <<>>
    /\ \E publishOk \in BOOLEAN :
           \E res \in {retry_event(
                           IF USING_RABBITMQ
                           THEN [RetryWorld EXCEPT !.rabbit = Tail(@)]
                           ELSE [RetryWorld EXCEPT !.direct = Tail(@)],
                           Head(Waiting), publishOk)} :
               ApplyRetry("retry_event", Head(Waiting), res)

\* a worker takes the next event and handles it
WorkerSucceeds ==
    /\ Waiting # <<>>
    /\ ApplyRetry("worker", Head(Waiting),
                  Ret(IF USING_RABBITMQ
                      THEN [RetryWorld EXCEPT !.rabbit = Tail(@)]
                      ELSE [RetryWorld EXCEPT !.direct = Tail(@)]))

RetryNext ==
    \/ NewEvent
    \/ WorkerFails
    \/ WorkerSucceeds

SpecRetry == RetryInit /\ [][RetryNext]_vars

(* Claims about retry_event *)

RetryDone == lastRetry.op = "retry_event"

Tries(event) ==
    IF "failed_tries" \in DOMAIN event THEN event["failed_tries"] ELSE 0

\* C6: retry_event sets failed_tries to its previous value plus 1 (an absent
\* field counting as 0); if the new value is greater than 3 the event goes to
\* failure_processor exactly once and not to the publish path, otherwise it
\* goes to the publish path exactly once and not to failure_processor.
C6_RetryArithmetic ==
    RetryDone =>
        LET after == [k \in DOMAIN lastRetry.before \cup {"failed_tries"} |->
                         IF k = "failed_tries" THEN Tries(lastRetry.before) + 1
                         ELSE lastRetry.before[k]]
        IN  IF Tries(lastRetry.before) + 1 > 3
            THEN lastRetry.failures = <<after>> /\ lastRetry.published = <<>>
            ELSE lastRetry.published = <<after>> /\ lastRetry.failures = <<>>

\* C6 witness: the fourth retry of an event: failed_tries goes from 3 to 4 and
\* the event reaches failure_processor
C6_FourthRetryFails ==
    /\ RetryDone
    /\ Tries(lastRetry.before) = 3
    /\ Len(lastRetry.failures) = 1
    /\ lastRetry.failures[1]["failed_tries"] = 4

\* failed_tries as retry_event leaves it
Retried(event) ==
    [k \in DOMAIN event \cup {"failed_tries"} |->
        IF k = "failed_tries" THEN Tries(event) + 1 ELSE event[k]]

Republishing == RetryDone /\ Tries(lastRetry.before) + 1 <= MAX_REQUEST_RETRIES

\* C12 (as claimed): when retry_event republishes, a failure of the republish
\* is ignored: retry_event returns normally, and makes no second attempt.
C12_RepublishFailureIgnored ==
    Republishing =>
        /\ lastRetry.raised = "none"
        /\ Len(lastRetry.published) = 1

\* C12 (amended): when retry_event republishes, it makes one attempt; a
\* failure of it reaches the caller of retry_event as the connection error it
\* is; when retry_event returns normally the event is the newest on the
\* queue (broker enabled) or was given to the no-op processor.
C12_RepublishFailurePropagates ==
    Republishing =>
        /\ lastRetry.published = <<Retried(lastRetry.before)>>
        /\ lastRetry.failures = <<>>
        /\ IF USING_RABBITMQ
           THEN /\ lastRetry.brokered = <<Retried(lastRetry.before)>>
                /\ \/ /\ lastRetry.raised = "none"
                      /\ rabbit # <<>>
                      /\ rabbit[Len(rabbit)] = Retried(lastRetry.before)
                   \/ lastRetry.raised = "AMQPConnectionError"
           ELSE lastRetry.brokered = <<>> /\ lastRetry.raised = "none"

\* C12 witness: a republish failed and retry_event raised
C12_RepublishRaised ==
    /\ Republishing
    /\ USING_RABBITMQ
    /\ lastRetry.raised = "AMQPConnectionError"

\* C13: queue_json_publish takes one of three routes: the broker client's
\* json_publish when the broker is enabled, and then neither the processor
\* nor the worker; else the processor, once, when there is one; else the
\* worker's consume path, once; the last two without any broker operation.
C13_OneRoute ==
    lastRetry.op = "queue_json_publish" =>
        LET once == <<lastRetry.before>> IN
        IF USING_RABBITMQ
        THEN /\ lastRetry.brokered = once
             /\ lastRetry.processed = <<>>
             /\ lastRetry.consumed = <<>>
        ELSE IF lastRetry.processor # "none"
        THEN /\ lastRetry.processed = once
             /\ lastRetry.brokered = <<>>
             /\ lastRetry.consumed = <<>>
             /\ rabbit = <<>>
        ELSE /\ lastRetry.consumed = once
             /\ lastRetry.brokered = <<>>
             /\ lastRetry.processed = <<>>
             /\ rabbit = <<>>

\* C13 witness: with the broker enabled and a processor given, the event went
\* to the broker
C13_BrokerDespiteProcessor ==
    /\ lastRetry.op = "queue_json_publish"
    /\ USING_RABBITMQ
    /\ lastRetry.processor # "none"
    /\ lastRetry.brokered # <<>>

\* C19 (as claimed): after a retry_event that returns normally the event has
\* been handed to failure_processor, or is on the queue or with the worker
\* for another attempt, whatever the broker flag.
C19_EventNotLost ==
    (RetryDone /\ lastRetry.raised = "none") =>
        \/ lastRetry.failures = <<Retried(lastRetry.before)>>
        \/ \E i \in DOMAIN rabbit : rabbit[i] = Retried(lastRetry.before)
        \/ \E i \in DOMAIN direct : direct[i] = Retried(lastRetry.before)

----------------------------------------------------------------------------
(* SimpleQueueClient.drain_queue *)

\* message bodies: the empty body, two JSON texts, a text that is not JSON
Bodies == {"", "1", "2", "x"}

\* ujson.loads
loads(body) ==
    CASE body = "1" -> [ok |-> TRUE, value |-> 1]
      [] body = "2" -> [ok |-> TRUE, value |-> 2]
      [] OTHER      -> [ok |-> FALSE, value |-> 0]

\* the queue and the call's local list as drain_queue starts
DrainWorld ==
    [stored |-> stored, unacked |-> unacked, messages |-> <<>>, acked |-> <<>>]

\* opened: basic_get until it returns no message; gets is the number of
\* basic_get calls the connection still carries
RECURSIVE opened(_, _, _)
opened(d, json, gets) ==
    IF gets = 0 THEN Raise(d, "AMQPConnectionError")
    ELSE IF d.stored = <<>> THEN Ret(d)
    ELSE LET message == Head(d.stored)
             got == [d EXCEPT !.stored = Tail(@), !.unacked = Append(@, message)]
             acked == [got EXCEPT !.unacked = SubSeq(@, 1, Len(@) - 1),
                                  !.acked = Append(@, message)]
         IN  IF message = "" THEN Ret(got)
             ELSE IF json /\ ~loads(message).ok THEN Raise(acked, "ValueError")
             ELSE opened([acked EXCEPT !.messages =
                              Append(@, IF json THEN loads(message).value
                                        ELSE message)],
                         json, gets - 1)

\* drain_queue: ensure_queue(queue_name, opened), then return messages
drain_queue(d, json, gets) == opened(d, json, gets)

DrainInit ==
    /\ stored \in {<<>>} \cup {<<b>> : b \in Bodies}
    /\ unacked = <<>>
    /\ lastDrain = [op |-> "init"]
    /\ connection = "open"
    /\ channel = "set"
    /\ queues = {}
    /\ consumers = [q \in Queues |-> {}]
    /\ on_open_cbs = <<>>
    /\ broker = FreshLink
    /\ ioloop = 0
    /\ calls = {}
    /\ atReconnect = {}
    /\ invoked = <<>>
    /\ connects = 1
    /\ transports = 1
    /\ outages = 0
    /\ ctags = <<>>
    /\ NoFactory
    /\ lastCall = [op |-> "init", publishes |-> <<>>, reconnects |-> <<>>,
                   raised |-> "none"]
    /\ NoRetry /\ NoDispatch /\ NoThreads

\* a publisher adds a message while no drain is running
Enqueue ==
    /\ Len(stored) + Len(unacked) < MaxLen
    /\ \E body \in Bodies : stored' = Append(stored, body)
    /\ lastDrain' = [op |-> "enqueue"]
    /\ UNCHANGED <<unacked, clientVars, retryVars, dispatchVars, lockVars, factoryVars>>

DrainQueue ==
    \E json \in BOOLEAN, gets \in 0..(Len(stored) + 1) :
        \E res \in {drain_queue(DrainWorld, json, gets)} :
            /\ stored' = res.w.stored
            /\ unacked' = res.w.unacked
            /\ lastDrain' = [op |-> "drain_queue", json |-> json,
                             before |-> stored,
                             returned |-> IF res.exc = "none"
                                          THEN res.w.messages ELSE <<>>,
                             acked |-> res.w.acked, raised |-> res.exc,
                             follows |-> /\ lastDrain.op = "drain_queue"
                                         /\ lastDrain.raised = "none"]
            /\ UNCHANGED <<clientVars, retryVars, dispatchVars, lockVars, factoryVars>>

\* the channel closes: the broker puts the unacknowledged messages back
Requeue ==
    /\ unacked # <<>>
    /\ stored' = unacked \o stored
    /\ unacked' = <<>>
    /\ lastDrain' = [op |-> "requeue"]
    /\ UNCHANGED <<clientVars, retryVars, dispatchVars, lockVars, factoryVars>>

DrainNext ==
    \/ Enqueue
    \/ DrainQueue
    \/ Requeue

SpecDrain == DrainInit /\ [][DrainNext]_vars

(* Claims about drain_queue *)

\* C7 (as claimed): with no concurrent publisher or consumer, drain_queue on a
\* queue holding m1..mn, for any bodies, returns exactly m1..mn in order,
\* acknowledges each and leaves the queue empty; a drain right after a drain
\* returns the empty sequence.
C7_DrainReturnsAll ==
    (lastDrain.op = "drain_queue" /\ ~lastDrain.json /\ lastDrain.raised = "none") =>
        /\ lastDrain.returned = lastDrain.before
        /\ lastDrain.acked = lastDrain.before
        /\ stored = <<>>
        /\ lastDrain.follows => lastDrain.returned = <<>>

\* C20 (as claimed): every message that a drain_queue call has acknowledged
\* is in the sequence the call returns, decoded when json is set; a call that
\* ends with an error has acknowledged none.
C20_AckedAreReturned ==
    lastDrain.op = "drain_queue" =>
        /\ Len(lastDrain.returned) = Len(lastDrain.acked)
        /\ \A i \in DOMAIN lastDrain.acked :
               lastDrain.returned[i] =
                   IF lastDrain.json THEN loads(lastDrain.acked[i]).value
                   ELSE lastDrain.acked[i]

----------------------------------------------------------------------------
(* The wrapped consumers of register_consumer and register_json_consumer *)

\* what a handler does with a delivery: return, raise an Exception, or raise
\* a BaseException that is no Exception (KeyboardInterrupt, SystemExit)
HandlerOutcomes == {"returns", "Exception", "BaseException"}

\* a delivery as it starts: nothing acknowledged, the handler not yet called
Delivery(tag, body) ==
    [delivery_tag |-> tag, body |-> body, handler |-> "not_called",
     issued |-> <<>>]

\* ch.basic_ack(delivery_tag) and ch.basic_nack(delivery_tag): the request,
\* and ConnectionClosed when the connection is gone
basic_ack(d, tag, ok) ==
    LET sent == [d EXCEPT !.issued = Append(@, [kind |-> "ack", tag |-> tag, ok |-> ok])]
    IN  IF ok THEN Ret(sent) ELSE Raise(sent, "ack:ConnectionClosed")

basic_nack(d, tag, ok) ==
    LET sent == [d EXCEPT !.issued = Append(@, [kind |-> "nack", tag |-> tag, ok |-> ok])]
    IN  IF ok THEN Ret(sent) ELSE Raise(sent, "nack:ConnectionClosed")

\* the handler is called
handler_call(d, outcome) ==
    IF outcome = "returns"
    THEN Ret([d EXCEPT !.handler = "returned"])
    ELSE Raise([d EXCEPT !.handler = "raised"], "handler:" \o outcome)

\* wrapped_callback of register_json_consumer: callback(ujson.loads(body))
wrapped_callback(d, outcome) ==
    IF loads(d.body).ok THEN handler_call(d, outcome)
    ELSE Raise(d, "loads:ValueError")

\* the consumer that register_consumer wraps
consumer(d, json, outcome) ==
    IF json THEN wrapped_callback(d, outcome) ELSE handler_call(d, outcome)

\* except Exception: everything but a BaseException that is no Exception
IsException(e) == e # "none" /\ e # "handler:BaseException"

\* wrapped_consumer as it would be with basic_ack in the except branch
Simple_wrapped_consumer_AckOnError(d, json, outcome, ackOk, nackOk) ==
    LET c == consumer(d, json, outcome)
        tried == IF c.exc = "none"
                 THEN basic_ack(c.w, c.w.delivery_tag, ackOk)
                 ELSE c
    IN  IF IsException(tried.exc)
        THEN LET n == basic_ack(tried.w, tried.w.delivery_tag, nackOk) IN
             IF n.exc # "none" THEN n ELSE Raise(n.w, tried.exc)
        ELSE tried

\* SimpleQueueClient.register_consumer.wrapped_consumer
Simple_wrapped_consumer(d, json, outcome, ackOk, nackOk) ==
    LET c == consumer(d, json, outcome)
        tried == IF c.exc = "none"
                 THEN basic_ack(c.w, c.w.delivery_tag, ackOk)
                 ELSE c
    IN  IF IsException(tried.exc)
        THEN LET n == basic_nack(tried.w, tried.w.delivery_tag, nackOk) IN
             IF n.exc # "none" THEN n ELSE Raise(n.w, tried.exc)
        ELSE tried

\* TornadoQueueClient.register_consumer.wrapped_consumer
Tornado_wrapped_consumer(d, json, outcome, ackOk) ==
    LET c == consumer(d, json, outcome) IN
    IF c.exc = "none" THEN basic_ack(c.w, c.w.delivery_tag, ackOk) ELSE c

DispatchInit ==
    /\ delivery_tag = 0
    /\ lastDispatch = [op |-> "init"]
    /\ connection = "open"
    /\ channel = "set"
    /\ queues = {}
    /\ consumers = [q \in Queues |-> {}]
    /\ on_open_cbs = <<>>
    /\ broker = FreshLink
    /\ ioloop = 0
    /\ calls = {}
    /\ atReconnect = {}
    /\ invoked = <<>>
    /\ connects = 1
    /\ transports = 1
    /\ outages = 0
    /\ ctags = <<>>
    /\ NoFactory
    /\ lastCall = [op |-> "init", publishes |-> <<>>, reconnects |-> <<>>,
                   raised |-> "none"]
    /\ NoRetry /\ NoDrain /\ NoThreads

Dispatched(variant, json, res) ==
    /\ delivery_tag' = delivery_tag + 1
    /\ lastDispatch' = [op |-> variant, json |-> json,
                        delivery_tag |-> res.w.delivery_tag,
                        body |-> res.w.body,
                        handler |-> res.w.handler, issued |-> res.w.issued,
                        raised |-> res.exc]
    /\ UNCHANGED <<clientVars, retryVars, drainVars, lockVars, factoryVars>>

\* the blocking dispatch loop hands the next delivery to a wrapped consumer
SimpleDispatch ==
    /\ delivery_tag < MaxDeliveries
    /\ \E body \in Bodies, json \in BOOLEAN, outcome \in HandlerOutcomes,
          ackOk \in BOOLEAN, nackOk \in BOOLEAN :
           \E res \in {Simple_wrapped_consumer(Delivery(delivery_tag + 1, body),
                                                json, outcome, ackOk, nackOk)} :
               Dispatched("simple", json, res)

\* the event loop hands the next delivery to a wrapped consumer
TornadoDispatch ==
    /\ delivery_tag < MaxDeliveries
    /\ \E body \in Bodies, json \in BOOLEAN, outcome \in HandlerOutcomes,
          ackOk \in BOOLEAN :
           \E res \in {Tornado_wrapped_consumer(Delivery(delivery_tag + 1, body),
                                                 json, outcome, ackOk)} :
               Dispatched("tornado", json, res)

\* the channel is opened anew: delivery tags start again
ChannelReopened ==
    /\ delivery_tag > 0
    /\ delivery_tag' = 0
    /\ lastDispatch' = [op |-> "reopened"]
    /\ UNCHANGED <<clientVars, retryVars, drainVars, lockVars, factoryVars>>

DispatchNext ==
    \/ SimpleDispatch
    \/ TornadoDispatch
    \/ ChannelReopened

SpecDispatch == DispatchInit /\ [][DispatchNext]_vars

(* Claims about the blocking wrapped consumer *)

SimpleDispatched == lastDispatch.op = "simple"

Settled(kind) ==
    {i \in DOMAIN lastDispatch.issued : lastDispatch.issued[i].kind = kind}

\* C8 (as claimed): in the blocking client, a handler that returns is followed
\* by an ack with the delivery's tag; a handler that raises is followed by a
\* nack with the delivery's tag, by no request with another tag, and its error
\* is re-raised to the dispatch loop.
C8_AckOrNackAndReraise ==
    SimpleDispatched =>
        /\ lastDispatch.handler = "returned" =>
              \E i \in Settled("ack") :
                  lastDispatch.issued[i].tag = lastDispatch.delivery_tag
        /\ lastDispatch.handler = "raised" =>
              /\ \E i \in Settled("nack") :
                     lastDispatch.issued[i].tag = lastDispatch.delivery_tag
              /\ \A i \in DOMAIN lastDispatch.issued :
                     lastDispatch.issued[i].tag = lastDispatch.delivery_tag
              /\ lastDispatch.raised \in {"handler:Exception", "handler:BaseException"}

\* C8 (amended): in the blocking client, a handler that returns is followed by
\* an ack with the delivery's tag; a handler that raises an Exception is
\* followed by a nack with the delivery's tag and by no ack, and its error is
\* re-raised to the dispatch loop unless the nack itself raises; no request
\* carries another tag.
C8_AckOrNackSameTag ==
    SimpleDispatched =>
        /\ lastDispatch.handler = "returned" =>
              \E i \in Settled("ack") :
                  lastDispatch.issued[i].tag = lastDispatch.delivery_tag
        /\ (lastDispatch.handler = "raised" /\ lastDispatch.raised # "handler:BaseException") =>
              /\ Settled("ack") = {}
              /\ Cardinality(Settled("nack")) = 1
              /\ \A i \in Settled("nack") :
                     IF lastDispatch.issued[i].ok
                     THEN lastDispatch.raised = "handler:Exception"
                     ELSE lastDispatch.raised = "nack:ConnectionClosed"
        /\ \A i \in DOMAIN lastDispatch.issued :
               lastDispatch.issued[i].tag = lastDispatch.delivery_tag

\* C8 witness: a handler raised for a delivery with a tag above 1, the nack
\* went out and the handler's error reached the dispatch loop
C8_HandlerRaisedAndNacked ==
    /\ SimpleDispatched
    /\ lastDispatch.handler = "raised"
    /\ lastDispatch.delivery_tag > 1
    /\ Settled("nack") # {}
    /\ lastDispatch.raised = "handler:Exception"

\* C17 (as claimed): in the event-driven client a delivery whose handler was
\* invoked is acknowledged with its tag, whether the handler returned or
\* raised.
C17_AckWhateverTheHandlerDoes ==
    (lastDispatch.op = "tornado" /\ lastDispatch.handler # "not_called") =>
        \E i \in Settled("ack") :
            lastDispatch.issued[i].tag = lastDispatch.delivery_tag

----------------------------------------------------------------------------
(* queue_json_publish under queue_lock, called from several threads *)

\* RLock.acquire returns when no other thread owns the lock
CanAcquire(lock, t) == lock.owner \in {0, t}

acquire(lock, t) == [owner |-> t, count |-> lock.count + 1]

\* RLock.release
release(lock, t) ==
    IF lock.count = 1 THEN [owner |-> 0, count |-> 0]
    ELSE [lock EXCEPT !.count = @ - 1]

\* leaving the with statement as it would be if only a return released the lock
with_exit_KeptOnRaise(lock, t, exc) ==
    IF exc = "none" THEN release(lock, t) ELSE lock

\* leaving "with queue_lock:", by return or by exception
with_exit(lock, t, exc) == release(lock, t)

LockInit ==
    /\ queue_lock = [owner |-> 0, count |-> 0]
    /\ pc = [t \in Threads |-> [at |-> "idle", queue |-> "q1", exc |-> "none"]]
    /\ connection = "open"
    /\ channel = "set"
    /\ queues = {}
    /\ consumers = [q \in Queues |-> {}]
    /\ on_open_cbs = <<>>
    /\ broker = FreshLink
    /\ ioloop = 0
    /\ calls = {}
    /\ atReconnect = {}
    /\ invoked = <<>>
    /\ connects = 1
    /\ transports = 1
    /\ outages = 0
    /\ ctags = <<>>
    /\ NoFactory
    /\ lastCall = [op |-> "init", publishes |-> <<>>, reconnects |-> <<>>,
                   raised |-> "none"]
    /\ NoRetry /\ NoDrain /\ NoDispatch

\* the step of a thread inside the lock: the client changes, the thread moves on
Step(t, op, r, next) ==
    /\ Apply(r.w)
    /\ lastCall' = Course(op, r)
    /\ pc' = [pc EXCEPT ![t].at = next, ![t].exc = r.exc]
    /\ UNCHANGED <<queue_lock, retryVars, drainVars, dispatchVars, factoryVars>>

\* a thread calls queue_json_publish and waits for the lock
Call(t) ==
    /\ pc[t].at = "idle"
    /\ \E q \in Queues : pc' = [pc EXCEPT ![t] = [at |-> "acquire", queue |-> q, exc |-> "none"]]
    /\ UNCHANGED <<queue_lock, clientVars, retryVars, drainVars, dispatchVars, factoryVars>>

\* with queue_lock: (line 283)
Acquire(t) ==
    /\ pc[t].at = "acquire"
    /\ CanAcquire(queue_lock, t)
    /\ queue_lock' = acquire(queue_lock, t)
    /\ pc' = [pc EXCEPT ![t].at = "publish"]
    /\ UNCHANGED <<clientVars, retryVars, drainVars, dispatchVars, factoryVars>>

\* json_publish, line 102: the first publish
FirstPublish(t) ==
    /\ pc[t].at = "publish"
    /\ \E fault \in Faults :
           \E r \in {Simple_publish(World, pc[t].queue, fault)} :
               Step(t, "publish", r,
                    IF r.exc = "AMQPConnectionError" THEN "reconnect" ELSE "exit")

\* json_publish, line 107
Reconnect(t) ==
    /\ pc[t].at = "reconnect"
    /\ \E ok \in BOOLEAN :
           \E r \in {Simple_reconnect(World, ok)} :
               Step(t, "_reconnect", r, IF r.exc = "none" THEN "retry" ELSE "exit")

\* json_publish, line 108: the second publish
Retry(t) ==
    /\ pc[t].at = "retry"
    /\ \E fault \in Faults :
           \E r \in {Simple_publish(World, pc[t].queue, fault)} :
               Step(t, "publish", r, "exit")

\* the with statement ends, by return or with the exception in flight
Exit(t) ==
    /\ pc[t].at = "exit"
    /\ queue_lock' = with_exit(queue_lock, t, pc[t].exc)
    /\ pc' = [pc EXCEPT ![t].at = "idle"]
    /\ UNCHANGED <<clientVars, retryVars, drainVars, dispatchVars, factoryVars>>

LockNext ==
    \E t \in Threads :
        \/ Call(t)
        \/ Acquire(t)
        \/ FirstPublish(t)
        \/ Reconnect(t)
        \/ Retry(t)
        \/ Exit(t)

SpecLock == LockInit /\ [][LockNext]_vars

(* Claims about the lock *)

\* a thread is between acquiring the lock and leaving the with statement
InClient(t) == pc[t].at \in {"publish", "reconnect", "retry", "exit"}

\* C9: of the threads that call queue_json_publish at most one at a time
\* executes client operations; it holds the lock all along, the reconnect and
\* retry included, and the lock is released when the call returns and when it
\* raises, so that a thread outside the call never holds it.
C9_OneThreadInClient ==
    /\ \A t1, t2 \in Threads : (InClient(t1) /\ InClient(t2)) => t1 = t2
    /\ \A t \in Threads : InClient(t) => queue_lock.owner = t /\ queue_lock.count = 1
    /\ \A t \in Threads : ~InClient(t) => queue_lock.owner # t

\* C9 witness: one thread is in the retry of json_publish while another waits
\* for the lock, after an earlier call of that other thread raised
C9_RetryWhileOtherWaits ==
    \E t1, t2 \in Threads :
        /\ pc[t1].at = "retry"
        /\ pc[t2].at = "acquire"
        /\ lastCall.op = "_reconnect"

----------------------------------------------------------------------------
(* get_queue_client, called from several threads *)

\* the class that get_queue_client constructs, "none" when it constructs nothing
variant(tornado, rabbitmq) ==
    IF tornado /\ rabbitmq THEN "TornadoQueueClient"
    ELSE IF rabbitmq THEN "SimpleQueueClient"
    ELSE "none"

FactoryInit ==
    /\ RUNNING_INSIDE_TORNADO \in BOOLEAN
    /\ USING_RABBITMQ \in BOOLEAN
    /\ queue_client = 0
    /\ instances = <<>>
    /\ caller = [t \in Threads |-> [at |-> "idle", got |-> -1]]
    /\ returned = {}
    /\ rabbit = <<>>
    /\ direct = <<>>
    /\ failed = {}
    /\ lastRetry = [op |-> "init"]
    /\ connection = "open"
    /\ channel = "set"
    /\ queues = {}
    /\ consumers = [q \in Queues |-> {}]
    /\ on_open_cbs = <<>>
    /\ broker = FreshLink
    /\ ioloop = 0
    /\ calls = {}
    /\ atReconnect = {}
    /\ invoked = <<>>
    /\ connects = 1
    /\ transports = 1
    /\ outages = 0
    /\ ctags = <<>>
    /\ lastCall = [op |-> "init", publishes |-> <<>>, reconnects |-> <<>>,
                   raised |-> "none"]
    /\ NoDrain /\ NoDispatch /\ NoThreads

\* a thread calls get_queue_client: "if queue_client is None" and the tests
\* of the settings (lines 264-267)
Test(t) ==
    /\ caller[t].at = "idle"
    /\ caller' = [caller EXCEPT ![t].at =
                     IF queue_client = 0
                        /\ variant(RUNNING_INSIDE_TORNADO, USING_RABBITMQ) # "none"
                     THEN "construct" ELSE "return"]
    /\ UNCHANGED <<RUNNING_INSIDE_TORNADO, queue_client, instances, returned,
                   clientVars, retryVars, drainVars, dispatchVars, lockVars>>

\* queue_client = TornadoQueueClient() or SimpleQueueClient() (lines 266, 268):
\* the constructor connects, and raises when it cannot
Construct(t) ==
    /\ caller[t].at = "construct"
    /\ \E ok \in BOOLEAN :
           IF ok
           THEN /\ instances' = Append(instances,
                                       variant(RUNNING_INSIDE_TORNADO, USING_RABBITMQ))
                /\ queue_client' = Len(instances) + 1
                /\ caller' = [caller EXCEPT ![t].at = "return"]
           ELSE /\ caller' = [caller EXCEPT ![t].at = "idle"]
                /\ UNCHANGED <<instances, queue_client>>
    /\ UNCHANGED <<RUNNING_INSIDE_TORNADO, returned,
                   clientVars, retryVars, drainVars, dispatchVars, lockVars>>

\* return queue_client (line 270)
Return(t) ==
    /\ caller[t].at = "return"
    /\ returned' = returned \cup {queue_client}
    /\ caller' = [caller EXCEPT ![t] = [at |-> "idle", got |-> queue_client]]
    /\ UNCHANGED <<RUNNING_INSIDE_TORNADO, queue_client, instances,
                   clientVars, retryVars, drainVars, dispatchVars, lockVars>>

FactoryNext ==
    \E t \in Threads :
        \/ Test(t)
        \/ Construct(t)
        \/ Return(t)

SpecFactory == FactoryInit /\ [][FactoryNext]_vars

\* C15 (as claimed): with the broker enabled at most one client is ever
\* constructed and every call returns that one, also when threads make their
\* first calls at the same time; it is the event-driven client exactly when
\* the event-loop flag is set; with the broker disabled none is constructed.
C15_OneInstance ==
    /\ Len(instances) <= 1
    /\ Cardinality(returned \ {0}) <= 1
    /\ \A i \in DOMAIN instances :
           instances[i] = IF RUNNING_INSIDE_TORNADO THEN "TornadoQueueClient"
                          ELSE "SimpleQueueClient"
    /\ ~USING_RABBITMQ => instances = <<>>

====
